---- MODULE Spec2Model ----
(***************************************************************************)
(* Model of sqlx_helpers (src/src/lib.rs): three SQL text formatters, the  *)
(* three single-statement executors built on them, and the batched         *)
(* insert_transaction.  A Rust String is modelled as a sequence of         *)
(* one-character strings so that push, push_str and pop act on characters  *)
(* exactly as in the source.  The database driver (sqlx pool, transaction  *)
(* handle, rows) is the environment: its outcomes are nondeterministic.    *)
(***************************************************************************)
EXTENDS Integers, Sequences, FiniteSets, TLC

VARIABLES
    pc,          \* position of the one call in progress
    op,          \* the function called
    args,        \* its arguments
    result,      \* what it returned (or that it panicked)
    log,         \* requests sent to the driver by this call, in order
    inflight,    \* requests sent and not yet answered
    txn,         \* the transaction handle: status and uncommitted statements
    db,          \* statements whose effect is committed, i.e. visible
    db_at_call,  \* db when the call started
    rows,        \* rows the driver returned to select
    stmt,        \* insert_transaction: index of the current value row
    driver_out,  \* the driver's answer to the last request
    failed_stmt  \* insert_transaction: index of the statement that failed, or 0

vars == <<pc, op, args, result, log, inflight, txn, db, db_at_call, rows, stmt,
          driver_out, failed_stmt>>

----------------------------------------------------------------------------
(* Bounds of the explored inputs *)

MaxLen == 2
MaxBatch == 2
MaxRows == 2

----------------------------------------------------------------------------
(* Input alphabets: strings are sequences of characters *)

TableNames == { <<"b","k">> }

ColNames == { <<"t">>, <<"i","d">> }

\* values include the empty string and one with an embedded quote
ValStrings == { <<>>, <<"W">>, <<"o","'","k">> }

Keys == { << <<"i","d">>, <<"7">> >>, << <<"t">>, <<>> >> }

DriverErrors == { "e1", "e2" }

\* sequences over S of length 0..n
SeqUpTo(S, n) == UNION { [1..k -> S] : k \in 0..n }

----------------------------------------------------------------------------
(* std::string::String operations used by the formatters *)

push_str(q, s) == q \o s

push(q, c) == Append(q, c)

\* String::pop removes the last character; on an empty string it is a no-op
pop(q) == IF Len(q) = 0 THEN q ELSE SubSeq(q, 1, Len(q) - 1)

S_INSERT_INTO == <<"I","N","S","E","R","T"," ","I","N","T","O"," ">>
S_VALUES == <<"V","A","L","U","E","S"," ","(">>
S_UPDATE == <<"U","P","D","A","T","E"," ">>
S_SET == <<" ","S","E","T"," ">>
S_EQ == <<" ","="," ">>
S_WHERE == <<" ","W","H","E","R","E"," ">>
S_SELECT == <<"S","E","L","E","C","T"," ">>
S_FROM == <<" ","F","R","O","M"," ">>

----------------------------------------------------------------------------
(* format_insert_query *)

RECURSIVE insert_index_loop(_, _, _)
insert_index_loop(query, indexes, i) ==
    IF i > Len(indexes) THEN query
    ELSE insert_index_loop(push(push_str(query, indexes[i]), ","), indexes, i + 1)

RECURSIVE insert_value_loop(_, _, _)
insert_value_loop(query, values, i) ==
    IF i > Len(values) THEN query
    ELSE insert_value_loop(
            push_str(push(push_str(push(query, "'"), values[i]), "'"), <<",">>),
            values, i + 1)

\* variant: the separator after the last value is left in place
format_insert_query_no_pop(table_name, indexes, values) ==
    LET q0 == push_str(push_str(S_INSERT_INTO, table_name), <<" ", "(">>)
        q1 == insert_index_loop(q0, indexes, 1)
        q2 == push_str(push_str(pop(q1), <<")", " ">>), S_VALUES)
        q3 == insert_value_loop(q2, values, 1)
    IN  push_str(q3, <<")">>)

\* variant: values beyond the number of columns are dropped
format_insert_query_zip(table_name, indexes, values) ==
    LET q0 == push_str(push_str(S_INSERT_INTO, table_name), <<" ", "(">>)
        q1 == insert_index_loop(q0, indexes, 1)
        q2 == push_str(push_str(pop(q1), <<")", " ">>), S_VALUES)
        n  == IF Len(values) < Len(indexes) THEN Len(values) ELSE Len(indexes)
        q3 == insert_value_loop(q2, SubSeq(values, 1, n), 1)
    IN  push_str(pop(q3), <<")">>)

\* variant: pop only when the last character is the separator
pop_separator(q) == IF Len(q) > 0 /\ q[Len(q)] = "," THEN pop(q) ELSE q

format_insert_query_guarded_pop(table_name, indexes, values) ==
    LET q0 == push_str(push_str(S_INSERT_INTO, table_name), <<" ", "(">>)
        q1 == insert_index_loop(q0, indexes, 1)
        q2 == push_str(push_str(pop_separator(q1), <<")", " ">>), S_VALUES)
        q3 == insert_value_loop(q2, values, 1)
    IN  push_str(pop_separator(q3), <<")">>)

format_insert_query(table_name, indexes, values) ==
    LET q0 == push_str(push_str(S_INSERT_INTO, table_name), <<" ", "(">>)
        q1 == insert_index_loop(q0, indexes, 1)
        q2 == push_str(push_str(pop(q1), <<")", " ">>), S_VALUES)
        q3 == insert_value_loop(q2, values, 1)
    IN  push_str(pop(q3), <<")">>)

----------------------------------------------------------------------------
(* format_update_query *)

RECURSIVE update_loop(_, _, _)
update_loop(query, updates, i) ==
    IF i > Len(updates) THEN query
    ELSE update_loop(
            push(push(push_str(push(push_str(push_str(query, updates[i][1]), S_EQ),
                                    "'"), updates[i][2]), "'"), ","),
            updates, i + 1)

\* variant: the comma after the last assignment is left in place
format_update_query_no_pop(table_name, updates, key) ==
    LET q0 == push_str(push_str(S_UPDATE, table_name), S_SET)
        q1 == update_loop(q0, updates, 1)
        q2 == push_str(push_str(push_str(q1, S_WHERE), key[1]), S_EQ)
    IN  push(push_str(push(q2, "'"), key[2]), "'")

\* variant: assignments separated by a comma and a space
RECURSIVE update_loop_space(_, _, _)
update_loop_space(query, updates, i) ==
    IF i > Len(updates) THEN query
    ELSE update_loop_space(
            push_str(push(push_str(push(push_str(push_str(query, updates[i][1]), S_EQ),
                                        "'"), updates[i][2]), "'"), <<",", " ">>),
            updates, i + 1)

format_update_query_space(table_name, updates, key) ==
    LET q0 == push_str(push_str(S_UPDATE, table_name), S_SET)
        q1 == pop(pop(update_loop_space(q0, updates, 1)))
        q2 == push_str(push_str(push_str(q1, S_WHERE), key[1]), S_EQ)
    IN  push(push_str(push(q2, "'"), key[2]), "'")

format_update_query(table_name, updates, key) ==
    LET q0 == push_str(push_str(S_UPDATE, table_name), S_SET)
        q1 == pop(update_loop(q0, updates, 1))
        q2 == push_str(push_str(push_str(q1, S_WHERE), key[1]), S_EQ)
    IN  push(push_str(push(q2, "'"), key[2]), "'")

----------------------------------------------------------------------------
(* format_select_string *)

RECURSIVE select_field_loop(_, _, _)
select_field_loop(query, fields, i) ==
    IF i > Len(fields) THEN query
    ELSE select_field_loop(push(push_str(query, fields[i]), ","), fields, i + 1)

\* variant: the key value is not quoted
format_select_string_unquoted(table_name, fields, key) ==
    LET q0 == pop(select_field_loop(S_SELECT, fields, 1))
        q1 == push_str(push_str(push_str(q0, S_FROM), table_name), S_WHERE)
        q2 == push_str(push_str(q1, key[1]), S_EQ)
    IN  push_str(q2, key[2])

format_select_string(table_name, fields, key) ==
    LET q0 == pop(select_field_loop(S_SELECT, fields, 1))
        q1 == push_str(push_str(push_str(q0, S_FROM), table_name), S_WHERE)
        q2 == push_str(push_str(q1, key[1]), S_EQ)
    IN  push(push_str(push(q2, "'"), key[2]), "'")

----------------------------------------------------------------------------
(* the environment: driver, transaction handle, rows *)

NoTxn == [status |-> "none", pending |-> <<>>]

NoResult == [tag |-> "none"]

Ok(v) == [tag |-> "Ok", val |-> v]

\* the ? operator boxes the driver's error and returns it
Err(e) == [tag |-> "Err", err |-> e]

Panic == [tag |-> "Panic"]

Outcomes == {"ok"} \cup DriverErrors

Request(ev, on, sql) == [ev |-> ev, on |-> on, sql |-> sql]

\* cells of a table row: select decodes every requested column as a String
Cells == { [typ |-> "TEXT", val |-> <<"W">>],
           [typ |-> "TEXT", val |-> <<"A","S">>],
           [typ |-> "INT4", val |-> <<"7">>] }

TableRows == [ColNames -> Cells]

Perms(n) == { p \in [1..n -> 1..n] : \A a, b \in 1..n : p[a] = p[b] => a = b }

\* what the driver hands back for the selected fields: one column per
\* requested field, in a column order of the driver's choosing
DriverRow(base, fields, perm) ==
    [j \in 1..Len(fields) |->
        [name |-> fields[perm[j]],
         typ  |-> base[fields[perm[j]]].typ,
         val  |-> base[fields[perm[j]]].val]]

\* Row::get(name) as String: panics when the column is missing or not text
row_get(row, name) ==
    LET found == { j \in 1..Len(row) : row[j].name = name }
    IN  IF found = {} THEN [ok |-> FALSE, val |-> <<>>]
        ELSE LET j == CHOOSE x \in found : \A y \in found : x <= y
             IN  IF row[j].typ = "TEXT" THEN [ok |-> TRUE, val |-> row[j].val]
                 ELSE [ok |-> FALSE, val |-> <<>>]

\* a Transaction dropped while still open rolls back
txn_drop(t) ==
    IF t.status = "open" THEN [status |-> "rolledback", pending |-> <<>>] ELSE t

----------------------------------------------------------------------------
Init ==
    /\ pc = "idle"
    /\ op = "none"
    /\ args = [table_name |-> <<>>]
    /\ result = NoResult
    /\ log = <<>>
    /\ inflight = 0
    /\ txn = NoTxn
    /\ db = << <<"o","l","d">> >>
    /\ db_at_call = db
    /\ rows = <<>>
    /\ stmt = 0
    /\ driver_out = "none"
    /\ failed_stmt = 0

----------------------------------------------------------------------------
(* the pure formatters, called directly *)

CallFormatInsert(t, idx, vals) ==
    /\ pc = "idle"
    /\ pc' = "done"
    /\ op' = "format_insert_query"
    /\ args' = [table_name |-> t, indexes |-> idx, values |-> vals]
    /\ result' = [tag |-> "String", val |-> format_insert_query(t, idx, vals)]
    /\ UNCHANGED <<log, inflight, txn, db, db_at_call, rows, stmt, driver_out, failed_stmt>>

CallFormatUpdate(t, ups, key) ==
    /\ pc = "idle"
    /\ pc' = "done"
    /\ op' = "format_update_query"
    /\ args' = [table_name |-> t, updates |-> ups, key |-> key]
    /\ result' = [tag |-> "String", val |-> format_update_query(t, ups, key)]
    /\ UNCHANGED <<log, inflight, txn, db, db_at_call, rows, stmt, driver_out, failed_stmt>>

CallFormatSelect(t, fields, key) ==
    /\ pc = "idle"
    /\ pc' = "done"
    /\ op' = "format_select_string"
    /\ args' = [table_name |-> t, fields |-> fields, key |-> key]
    /\ result' = [tag |-> "String", val |-> format_select_string(t, fields, key)]
    /\ UNCHANGED <<log, inflight, txn, db, db_at_call, rows, stmt, driver_out, failed_stmt>>

NextFmt ==
    \/ \E t \in TableNames, idx \in SeqUpTo(ColNames, MaxLen),
          vals \in SeqUpTo(ValStrings, MaxLen) : CallFormatInsert(t, idx, vals)
    \/ \E t \in TableNames, ups \in SeqUpTo(ColNames \X ValStrings, MaxLen),
          key \in Keys : CallFormatUpdate(t, ups, key)
    \/ \E t \in TableNames, fields \in SeqUpTo(ColNames, MaxLen),
          key \in Keys : CallFormatSelect(t, fields, key)

SpecFmt == Init /\ [][NextFmt]_vars

----------------------------------------------------------------------------
(* insert, update, select: one statement against the pool, awaited *)

\* insert up to the await: the formatted text is sent as it is
InsertCall(t, idx, vals) ==
    /\ pc = "idle"
    /\ pc' = "insert_await"
    /\ op' = "insert"
    /\ args' = [table_name |-> t, indexes |-> idx, values |-> vals]
    /\ log' = Append(log, Request("execute", "pool", format_insert_query(t, idx, vals)))
    /\ inflight' = inflight + 1
    /\ db_at_call' = db
    /\ UNCHANGED <<result, txn, db, rows, stmt, driver_out, failed_stmt>>

\* variant: the driver's error is discarded
InsertComplete_swallow(outcome) ==
    /\ pc = "insert_await"
    /\ pc' = "done"
    /\ inflight' = inflight - 1
    /\ driver_out' = outcome
    /\ db' = IF outcome = "ok" THEN Append(db, log[Len(log)].sql) ELSE db
    /\ result' = Ok(<<>>)
    /\ UNCHANGED <<op, args, log, txn, db_at_call, rows, stmt, failed_stmt>>

\* execute(pool).await? returns
InsertComplete(outcome) ==
    /\ pc = "insert_await"
    /\ pc' = "done"
    /\ inflight' = inflight - 1
    /\ driver_out' = outcome
    /\ IF outcome = "ok"
       THEN /\ db' = Append(db, log[Len(log)].sql)
            /\ result' = Ok(<<>>)
       ELSE /\ db' = db
            /\ result' = Err(outcome)
    /\ UNCHANGED <<op, args, log, txn, db_at_call, rows, stmt, failed_stmt>>

UpdateCall(t, ups, key) ==
    /\ pc = "idle"
    /\ pc' = "update_await"
    /\ op' = "update"
    /\ args' = [table_name |-> t, updates |-> ups, key |-> key]
    /\ log' = Append(log, Request("execute", "pool", format_update_query(t, ups, key)))
    /\ inflight' = inflight + 1
    /\ db_at_call' = db
    /\ UNCHANGED <<result, txn, db, rows, stmt, driver_out, failed_stmt>>

UpdateComplete(outcome) ==
    /\ pc = "update_await"
    /\ pc' = "done"
    /\ inflight' = inflight - 1
    /\ driver_out' = outcome
    /\ IF outcome = "ok"
       THEN /\ db' = Append(db, log[Len(log)].sql)
            /\ result' = Ok(<<>>)
       ELSE /\ db' = db
            /\ result' = Err(outcome)
    /\ UNCHANGED <<op, args, log, txn, db_at_call, rows, stmt, failed_stmt>>

SelectCall(t, fields, key) ==
    /\ pc = "idle"
    /\ pc' = "select_await"
    /\ op' = "select"
    /\ args' = [table_name |-> t, fields |-> fields, key |-> key]
    /\ log' = Append(log, Request("fetch_all", "pool", format_select_string(t, fields, key)))
    /\ inflight' = inflight + 1
    /\ db_at_call' = db
    /\ UNCHANGED <<result, txn, db, rows, stmt, driver_out, failed_stmt>>

\* variant: columns read by position instead of by name
row_to_strings_positional(row, fields) ==
    [j \in 1..Len(fields) |->
        IF row[j].typ = "TEXT" THEN [ok |-> TRUE, val |-> row[j].val]
        ELSE [ok |-> FALSE, val |-> <<>>]]

\* the inner loop of select: one String per requested field, by name
row_to_strings(row, fields) ==
    [j \in 1..Len(fields) |-> row_get(row, fields[j])]

\* fetch_all(pool).await? returns and the rows are converted
SelectComplete(outcome, base, perm) ==
    /\ pc = "select_await"
    /\ pc' = "done"
    /\ inflight' = inflight - 1
    /\ driver_out' = outcome
    /\ rows' = IF outcome = "ok"
               THEN [i \in 1..Len(base) |-> DriverRow(base[i], args.fields, perm)]
               ELSE <<>>
    /\ result' =
          IF outcome # "ok" THEN Err(outcome)
          ELSE IF \A i \in 1..Len(rows') : \A j \in 1..Len(args.fields) :
                     row_to_strings(rows'[i], args.fields)[j].ok
               THEN Ok([i \in 1..Len(rows') |->
                          [j \in 1..Len(args.fields) |->
                              row_to_strings(rows'[i], args.fields)[j].val]])
               ELSE Panic
    /\ UNCHANGED <<op, args, log, txn, db, db_at_call, stmt, failed_stmt>>

NextExec ==
    \/ \E t \in TableNames, idx \in SeqUpTo(ColNames, MaxLen),
          vals \in SeqUpTo(ValStrings, MaxLen) : InsertCall(t, idx, vals)
    \/ \E outcome \in Outcomes : InsertComplete(outcome)
    \/ \E t \in TableNames, ups \in SeqUpTo(ColNames \X ValStrings, MaxLen),
          key \in Keys : UpdateCall(t, ups, key)
    \/ \E outcome \in Outcomes : UpdateComplete(outcome)
    \/ \E t \in TableNames, fields \in SeqUpTo(ColNames, MaxLen), key \in Keys :
          SelectCall(t, fields, key)
    \/ /\ pc = "select_await"
       /\ \E outcome \in Outcomes :
             \E base \in (IF outcome = "ok" THEN SeqUpTo(TableRows, MaxRows) ELSE {<<>>}) :
                \E perm \in Perms(Len(args.fields)) : SelectComplete(outcome, base, perm)

SpecExec == Init /\ [][NextExec]_vars

----------------------------------------------------------------------------
(* insert_transaction, one action per await point *)

TxnIndexes == { <<>>, << <<"t">> >>, << <<"t">>, <<"i","d">> >> }

TxnValueRows == { <<>>, << <<"W">> >>, << <<"o","'","k">>, <<"7">> >> }

\* pool.begin() is sent
CallInsertTransaction(t, idx, values) ==
    /\ pc = "idle"
    /\ pc' = "begin_await"
    /\ op' = "insert_transaction"
    /\ args' = [table_name |-> t, indexes |-> idx, values |-> values]
    /\ log' = Append(log, Request("begin", "pool", <<>>))
    /\ inflight' = inflight + 1
    /\ db_at_call' = db
    /\ UNCHANGED <<result, txn, db, rows, stmt, driver_out, failed_stmt>>

\* pool.begin().await? returns
BeginComplete(outcome) ==
    /\ pc = "begin_await"
    /\ inflight' = inflight - 1
    /\ driver_out' = outcome
    /\ IF outcome = "ok"
       THEN /\ txn' = [status |-> "open", pending |-> <<>>]
            /\ stmt' = 1
            /\ pc' = "loop"
            /\ UNCHANGED result
       ELSE /\ result' = Err(outcome)
            /\ pc' = "done"
            /\ UNCHANGED <<txn, stmt>>
    /\ UNCHANGED <<op, args, log, db, db_at_call, rows, failed_stmt>>

\* variant: the rows are sent last to first
ExecStart_reversed ==
    /\ pc = "loop"
    /\ stmt <= Len(args.values)
    /\ log' = Append(log, Request("execute", "txn",
                 format_insert_query(args.table_name, args.indexes,
                                     args.values[Len(args.values) + 1 - stmt])))
    /\ inflight' = inflight + 1
    /\ pc' = "exec_await"
    /\ UNCHANGED <<op, args, result, txn, db, db_at_call, rows, stmt, driver_out, failed_stmt>>

\* the loop body up to the await: format the next row and send it on txn
ExecStart ==
    /\ pc = "loop"
    /\ stmt <= Len(args.values)
    /\ log' = Append(log, Request("execute", "txn",
                 format_insert_query(args.table_name, args.indexes, args.values[stmt])))
    /\ inflight' = inflight + 1
    /\ pc' = "exec_await"
    /\ UNCHANGED <<op, args, result, txn, db, db_at_call, rows, stmt, driver_out, failed_stmt>>

\* variant: a failed statement does not end the loop
ExecComplete_swallow(outcome) ==
    /\ pc = "exec_await"
    /\ inflight' = inflight - 1
    /\ driver_out' = outcome
    /\ IF outcome = "ok"
       THEN /\ txn' = [txn EXCEPT !.pending = Append(@, log[Len(log)].sql)]
            /\ UNCHANGED failed_stmt
       ELSE /\ failed_stmt' = stmt
            /\ UNCHANGED txn
    /\ stmt' = stmt + 1
    /\ pc' = "loop"
    /\ UNCHANGED <<op, args, result, log, db, db_at_call, rows>>

\* execute(&mut txn).await? returns
ExecComplete(outcome) ==
    /\ pc = "exec_await"
    /\ inflight' = inflight - 1
    /\ driver_out' = outcome
    /\ IF outcome = "ok"
       THEN /\ txn' = [txn EXCEPT !.pending = Append(@, log[Len(log)].sql)]
            /\ stmt' = stmt + 1
            /\ pc' = "loop"
            /\ UNCHANGED <<result, failed_stmt>>
       ELSE /\ failed_stmt' = stmt
            /\ result' = Err(outcome)
            /\ txn' = txn_drop(txn)
            /\ pc' = "done"
            /\ UNCHANGED stmt
    /\ UNCHANGED <<op, args, log, db, db_at_call, rows>>

\* after the loop: txn.commit() is sent
CommitStart ==
    /\ pc = "loop"
    /\ stmt > Len(args.values)
    /\ log' = Append(log, Request("commit", "txn", <<>>))
    /\ inflight' = inflight + 1
    /\ pc' = "commit_await"
    /\ UNCHANGED <<op, args, result, txn, db, db_at_call, rows, stmt, driver_out, failed_stmt>>

\* txn.commit().await? returns; a commit whose answer was lost may have been applied
CommitComplete(outcome, applied) ==
    /\ pc = "commit_await"
    /\ inflight' = inflight - 1
    /\ driver_out' = outcome
    /\ pc' = "done"
    /\ IF outcome = "ok"
       THEN /\ db' = db \o txn.pending
            /\ txn' = [status |-> "committed", pending |-> <<>>]
            /\ result' = Ok(<<>>)
       ELSE /\ db' = IF applied THEN db \o txn.pending ELSE db
            /\ txn' = IF applied THEN [status |-> "committed", pending |-> <<>>]
                      ELSE txn_drop(txn)
            /\ result' = Err(outcome)
    /\ UNCHANGED <<op, args, log, db_at_call, rows, stmt, failed_stmt>>

NextTxn ==
    \/ \E t \in TableNames, idx \in TxnIndexes,
          values \in SeqUpTo(TxnValueRows, MaxBatch) : CallInsertTransaction(t, idx, values)
    \/ \E outcome \in Outcomes : BeginComplete(outcome)
    \/ ExecStart
    \/ \E outcome \in Outcomes : ExecComplete(outcome)
    \/ CommitStart
    \/ \E outcome \in Outcomes, applied \in BOOLEAN :
          (outcome = "ok" => applied) /\ CommitComplete(outcome, applied)

SpecTxn == Init /\ [][NextTxn]_vars

Next == NextFmt \/ NextExec \/ NextTxn

Spec == Init /\ [][Next]_vars

----------------------------------------------------------------------------
(* Vocabulary of the properties: the documented statement texts, built by    *)
(* joining the elements rather than by push and pop                          *)

RECURSIVE Join(_, _)
Join(ss, sep) ==
    IF Len(ss) = 0 THEN <<>>
    ELSE IF Len(ss) = 1 THEN ss[1]
    ELSE ss[1] \o sep \o Join(Tail(ss), sep)

Quoted(v) == <<"'">> \o v \o <<"'">>

QuotedAll(vs) == [i \in 1..Len(vs) |-> Quoted(vs[i])]

\* INSERT INTO T (c1,...,cn) VALUES ('v1',...,'vm')
InsertText(t, cols, vals) ==
    S_INSERT_INTO \o t \o <<" ", "(">> \o Join(cols, <<",">>) \o <<")", " ">>
        \o <<"V","A","L","U","E","S"," ","(">> \o Join(QuotedAll(vals), <<",">>) \o <<")">>

\* c = 'v'
AssignText(u) == u[1] \o <<" ", "=", " ">> \o Quoted(u[2])

\* UPDATE T SET a1<sep>a2... WHERE k = 'kv'
UpdateText(t, ups, key, sep) ==
    S_UPDATE \o t \o S_SET \o Join([i \in 1..Len(ups) |-> AssignText(ups[i])], sep)
        \o S_WHERE \o AssignText(key)

\* SELECT f1,...,fn FROM T WHERE k = 'kv'
SelectText(t, fields, key) ==
    S_SELECT \o Join(fields, <<",">>) \o S_FROM \o t \o S_WHERE \o AssignText(key)

Count(s, c) == Cardinality({ i \in 1..Len(s) : s[i] = c })

\* every ")" closes an earlier "(" and none stays open
ParensMatched(s) ==
    /\ Count(s, "(") = Count(s, ")")
    /\ \A n \in 1..Len(s) :
          Count(SubSeq(s, 1, n), ")") <= Count(SubSeq(s, 1, n), "(")

\* a comma that does not stand between two list elements
StrayComma(s) ==
    \E i \in 1..Len(s) :
        /\ s[i] = ","
        /\ \/ i = 1
           \/ i = Len(s)
           \/ s[i - 1] \in {"(", ","}
           \/ s[i + 1] \in {")", ","}

IsFormatInsert == op = "format_insert_query" /\ pc = "done"

IsFormatUpdate == op = "format_update_query" /\ pc = "done"

IsFormatSelect == op = "format_select_string" /\ pc = "done"

----------------------------------------------------------------------------
\* C3: for a non-empty column list and a value list of the same length,
\* format_insert_query returns exactly INSERT INTO T (c1,...,cn) VALUES
\* ('v1',...,'vn'): input order, values quoted verbatim, single commas and
\* no stray separator.
C3_InsertExactText ==
    (IsFormatInsert /\ Len(args.indexes) >= 1 /\ Len(args.values) = Len(args.indexes))
        => /\ result.tag = "String"
           /\ result.val = InsertText(args.table_name, args.indexes, args.values)
           /\ ~StrayComma(result.val)

C3_Witness ==
    /\ IsFormatInsert
    /\ args.indexes = << <<"t">>, <<"i","d">> >>
    /\ args.values = << <<"o","'","k">>, <<>> >>
    /\ result.val = InsertText(args.table_name, args.indexes, args.values)

\* C4: for a non-empty update list, format_update_query returns UPDATE T SET
\* followed by the assignments c = 'v' in input order joined by one comma
\* with no space, then WHERE k = 'kv', with no comma before WHERE.
C4_UpdateExactText ==
    (IsFormatUpdate /\ Len(args.updates) >= 1)
        => /\ result.tag = "String"
           /\ result.val = UpdateText(args.table_name, args.updates, args.key, <<",">>)

C4_Witness ==
    /\ IsFormatUpdate
    /\ Len(args.updates) = 2
    /\ args.updates[1] = << <<"t">>, <<"W">> >>
    /\ args.updates[2][1] = <<"i","d">>
    /\ result.val = UpdateText(args.table_name, args.updates, args.key, <<",">>)

\* C5 as stated: consecutive assignments are separated by a comma followed
\* by one space.
C5_CommaSpaceSeparated ==
    (IsFormatUpdate /\ Len(args.updates) >= 1)
        => result.val = UpdateText(args.table_name, args.updates, args.key, <<",", " ">>)

\* where assignment i starts in the text of an update statement
RECURSIVE AssignStart(_, _, _)
AssignStart(t, ups, i) ==
    IF i = 1 THEN Len(S_UPDATE) + Len(t) + Len(S_SET) + 1
    ELSE AssignStart(t, ups, i - 1) + Len(AssignText(ups[i - 1])) + 1

\* C5 (amended): for a non-empty update list the assignments appear in
\* update order, each directly followed by a single comma and then, with no
\* space, by the next assignment; the last is directly followed by WHERE.
C5_CommaOnlySeparated ==
    (IsFormatUpdate /\ Len(args.updates) >= 1)
        => \A i \in 1..Len(args.updates) :
              LET a == AssignText(args.updates[i])
                  from == AssignStart(args.table_name, args.updates, i)
                  next == from + Len(a)
              IN  /\ next <= Len(result.val)
                  /\ SubSeq(result.val, from, next - 1) = a
                  /\ i < Len(args.updates) => result.val[next] = ","
                  /\ i = Len(args.updates) =>
                        SubSeq(result.val, next, Len(result.val))
                            = S_WHERE \o AssignText(args.key)

C5_Witness ==
    /\ IsFormatUpdate
    /\ Len(args.updates) = 2
    /\ args.updates[1] # args.updates[2]
    /\ result.val[AssignStart(args.table_name, args.updates, 2) - 1] = ","

\* C6: for a non-empty field list, format_select_string returns exactly
\* SELECT f1,...,fn FROM T WHERE k = 'kv'.
C6_SelectExactText ==
    (IsFormatSelect /\ Len(args.fields) >= 1)
        => /\ result.tag = "String"
           /\ result.val = SelectText(args.table_name, args.fields, args.key)

C6_Witness ==
    /\ IsFormatSelect
    /\ args.fields = << <<"i","d">>, <<"t">> >>
    /\ result.val = SelectText(args.table_name, args.fields, args.key)

\* C9 as stated: whenever the lengths differ the returned string has
\* unmatched parentheses or commas.
C9_DifferingLengthsUnmatched ==
    (IsFormatInsert /\ Len(args.indexes) # Len(args.values))
        => /\ result.tag = "String"
           /\ (~ParensMatched(result.val) \/ StrayComma(result.val))

\* C9 (amended): the lengths are not validated and a string is returned
\* whenever they differ; with both lists non-empty it is the usual text with
\* matched parentheses and commas but unequal numbers of columns and values,
\* and the parentheses are unmatched exactly when one list is empty.
C9_DifferingLengthsText ==
    (IsFormatInsert /\ Len(args.indexes) # Len(args.values))
        => /\ result.tag = "String"
           /\ (Len(args.indexes) >= 1 /\ Len(args.values) >= 1)
                 => /\ result.val = InsertText(args.table_name, args.indexes, args.values)
                    /\ ParensMatched(result.val)
                    /\ ~StrayComma(result.val)
           /\ (Len(args.indexes) = 0 \/ Len(args.values) = 0)
                 <=> ~ParensMatched(result.val)

C9_Witness ==
    /\ IsFormatInsert
    /\ Len(args.indexes) = 1
    /\ Len(args.values) = 2
    /\ ParensMatched(result.val)

\* C10: the separator is removed by an unconditional pop, so with zero
\* columns or zero values the call still returns, and the pop has removed
\* the opening parenthesis of the empty list: INSERT INTO T ) VALUES (...)
\* and ... VALUES ) respectively.
C10_EmptyListLosesParen ==
    (IsFormatInsert /\ (Len(args.indexes) = 0 \/ Len(args.values) = 0))
        => /\ result.tag = "String"
           /\ result.val =
                S_INSERT_INTO \o args.table_name \o <<" ">>
                  \o (IF Len(args.indexes) = 0 THEN <<")">>
                      ELSE <<"(">> \o Join(args.indexes, <<",">>) \o <<")">>)
                  \o <<" ","V","A","L","U","E","S"," ">>
                  \o (IF Len(args.values) = 0 THEN <<")">>
                      ELSE <<"(">> \o Join(QuotedAll(args.values), <<",">>) \o <<")">>)

C10_Witness ==
    /\ IsFormatInsert
    /\ Len(args.indexes) = 0
    /\ Len(args.values) = 2
    /\ Count(result.val, "(") = 1
    /\ Count(result.val, ")") = 2

----------------------------------------------------------------------------
IsExecutor == op \in {"insert", "update", "select"} /\ pc = "done"

\* the text the called executor formats from its arguments
FormattedText ==
    CASE op = "insert" -> format_insert_query(args.table_name, args.indexes, args.values)
      [] op = "update" -> format_update_query(args.table_name, args.updates, args.key)
      [] op = "select" -> format_select_string(args.table_name, args.fields, args.key)

\* some requested column of some returned row is not text
NonTextReturned ==
    \E i \in 1..Len(rows) : \E j \in 1..Len(rows[i]) : rows[i][j].typ # "TEXT"

\* C7: when select succeeds its output has one entry per driver row, in the
\* driver's row order, each with len(fields) strings, element j being that
\* row's value of the column named fields[j] whatever the column order
\* inside the driver row.
C7_SelectAlignedWithFields ==
    (op = "select" /\ pc = "done" /\ result.tag = "Ok")
        => /\ Len(result.val) = Len(rows)
           /\ \A i \in 1..Len(rows) :
                 /\ Len(result.val[i]) = Len(args.fields)
                 /\ \A j \in 1..Len(args.fields) :
                       \E c \in 1..Len(rows[i]) :
                           /\ rows[i][c].name = args.fields[j]
                           /\ rows[i][c].val = result.val[i][j]

C7_Witness ==
    /\ op = "select" /\ pc = "done" /\ result.tag = "Ok"
    /\ Len(rows) = 2
    /\ args.fields = << <<"t">>, <<"i","d">> >>
    /\ rows[1][1].name = <<"i","d">>
    /\ result.val[1] = << <<"W">>, <<"A","S">> >>
    /\ result.val[2] = << <<"A","S">>, <<"A","S">> >>

\* C8 as stated: insert, update and select each send exactly one statement,
\* unvalidated and without retry, return the driver's failure as Err, and
\* return Ok if and only if that single execution succeeded.
C8_OkIffExecutionSucceeded ==
    IsExecutor
        => /\ Len(log) = 1
           /\ inflight = 0
           /\ log[1].on = "pool"
           /\ log[1].sql = FormattedText
           /\ driver_out # "ok" => result = Err(driver_out)
           /\ result.tag = "Ok" <=> driver_out = "ok"

\* C8 (amended): as stated for insert and update; select returns Ok if and
\* only if the single execution succeeded and every requested column of every
\* returned row is text, and panics when the execution succeeded but a
\* returned column is not text.
C8_OneStatementNoRetry ==
    IsExecutor
        => /\ Len(log) = 1
           /\ inflight = 0
           /\ log[1].on = "pool"
           /\ log[1].sql = FormattedText
           /\ driver_out # "ok" => result = Err(driver_out)
           /\ op \in {"insert", "update"} => (result.tag = "Ok" <=> driver_out = "ok")
           /\ op = "select" =>
                 /\ result.tag = "Ok" <=> (driver_out = "ok" /\ ~NonTextReturned)
                 /\ (driver_out = "ok" /\ NonTextReturned) => result = Panic

C8_Witness ==
    /\ op = "insert" /\ pc = "done"
    /\ Len(args.indexes) = 0
    /\ Len(args.values) = 1
    /\ driver_out = "e2"
    /\ result = Err("e2")
    /\ Len(log) = 1
    /\ db = db_at_call

----------------------------------------------------------------------------
IsTxn == op = "insert_transaction"

ExecutesIn(l) == { i \in 1..Len(l) : l[i].ev = "execute" }

CommitsIn(l) == { i \in 1..Len(l) : l[i].ev = "commit" }

\* the statements of value rows 1..n, in input-row order
StatementsUpTo(n) ==
    [i \in 1..n |-> format_insert_query(args.table_name, args.indexes, args.values[i])]

\* C1: if the k-th INSERT of insert_transaction fails, the call returns that
\* error at once, no commit is ever issued, statements k+1..N are never
\* executed, and none of the rows of statements 1..k-1 is visible afterwards.
C1_AllOrNothingOnStatementFailure ==
    (IsTxn /\ failed_stmt # 0)
        => /\ pc = "done"
           /\ failed_stmt \in 1..Len(args.values)
           /\ result = Err(driver_out)
           /\ CommitsIn(log) = {}
           /\ Cardinality(ExecutesIn(log)) = failed_stmt
           /\ [i \in 1..failed_stmt |-> log[i + 1].sql] = StatementsUpTo(failed_stmt)
           /\ txn.status = "rolledback"
           /\ txn.pending = <<>>
           /\ db = db_at_call

C1_Witness ==
    /\ IsTxn /\ pc = "done"
    /\ Len(args.values) = 2
    /\ failed_stmt = 2
    /\ result = Err("e1")
    /\ db = db_at_call

\* C2: on a run of insert_transaction in which no step fails the requests
\* are exactly one begin, the N INSERTs in input-row order on that
\* transaction, one commit, then Ok; at most one request is in flight at any
\* time, no statement runs outside the transaction and no commit precedes a
\* statement.
C2_SequentialThenCommitOnce ==
    IsTxn
        => /\ inflight \in {0, 1}
           /\ \A i \in ExecutesIn(log) : log[i].on = "txn" /\ i > 1
           /\ \A c \in CommitsIn(log) : \A i \in ExecutesIn(log) : i < c
           /\ CommitsIn(log) # {} => Cardinality(ExecutesIn(log)) = Len(args.values)
           /\ result.tag = "Ok"
                 => /\ pc = "done"
                    /\ inflight = 0
                    /\ log = << Request("begin", "pool", <<>>) >>
                               \o [i \in 1..Len(args.values) |->
                                     Request("execute", "txn", StatementsUpTo(Len(args.values))[i])]
                               \o << Request("commit", "txn", <<>>) >>
                    /\ db = db_at_call \o StatementsUpTo(Len(args.values))

C2_Witness ==
    /\ IsTxn /\ pc = "done" /\ result.tag = "Ok"
    /\ Len(args.values) = 2
    /\ args.values[1] # args.values[2]
    /\ Len(log) = 4
    /\ Len(db) = Len(db_at_call) + 2

====
